---- MODULE Spec2Model ----
(***************************************************************************)
(* Model of App::PropertyExpressionEngine (PropertyExpressionEngine.cpp):  *)
(* the binding store, the dependency-graph builder, the cycle detector     *)
(* and topological evaluator, and the maintenance handlers.                *)
(***************************************************************************)
EXTENDS Integers, Sequences, FiniteSets, TLC

(***************************************************************************)
(* The host document: the owner of the engine and two other objects.       *)
(***************************************************************************)
Owner == "O"

Objects == {"O", "X", "Y"}

\* Link properties of the host graph that do not come from the engine:
\* <<u, v>> says that u links to v, so u is in the in-list of v.
HostLinks == {<<"Y", "O">>}

(***************************************************************************)
(* Object identifiers.  "A1" is a second way of writing "A"; "X." names    *)
(* the object X as a whole (its property name is empty); "bad" resolves to *)
(* no property.                                                            *)
(***************************************************************************)
OwnerPaths == {"A", "B", "C", "A1"}

RefPaths == {"A", "B", "C", "A1", "X.v", "Y.v", "X."}

AllPaths == RefPaths \cup {"bad"}

\* The order in which the identifiers of one object are walked: by property
\* name (the inner std::map of Expression::getDeps).
PathOrder == <<"A", "A1", "B", "C", "X.", "X.v", "Y.v">>

\* The objects of the document in the order of their addresses, which is the
\* order of every container keyed by DocumentObject*.  It is fixed when the
\* document is made.
VARIABLE allocation

\* The document that Save has written and that has not been read yet: <<>>
\* or one document.
VARIABLE document

\* No expression of the inputs names Y together with another object, so
\* the place of Y makes no difference.
Allocations == {<<"O", "X", "Y">>, <<"X", "O", "Y">>}

getDocumentObject(p) ==
    CASE p \in OwnerPaths -> "O"
      [] p \in {"X.v", "X."} -> "X"
      [] p = "Y.v" -> "Y"
      [] OTHER -> "O"

\* The property name of an identifier; empty for a whole-object reference.
PropertyName(p) ==
    CASE p \in {"A", "A1"} -> "A"
      [] p \in {"B", "C"} -> p
      [] p \in {"X.v", "Y.v"} -> "v"
      [] OTHER -> ""

\* ObjectIdentifier::getProperty(): does the identifier resolve to a property?
getProperty(p) == p \in AllPaths \ {"bad", "X."}

\* ObjectIdentifier::canonicalPath(): the normal form given by the property.
oidCanonicalPath(p) == IF p = "A1" THEN "A" ELSE p

\* Property::testStatus(Output) || getType() & Prop_Output
isOutput(p) == PropertyName(p) = "B" /\ getDocumentObject(p) = Owner

(***************************************************************************)
(* Expressions.  An expression object has an identity (a natural number)   *)
(* and a content: the set of identifiers its variables name.               *)
(***************************************************************************)
NullExpr == 0

\* An expression object that no store holds any more.
Released == -1

Comments == {"", "c"}

\* Expression::getDepObjects()
getDepObjects(c) == {getDocumentObject(r) : r \in c}

\* The identifiers of c in the order of their text.
inTextOrder(c) == SelectSeq(PathOrder, LAMBDA r : r \in c)

\* The identifiers through which c references the object obj, by property
\* name: one entry of Expression::getDeps().
depsOf(c, obj) == SelectSeq(PathOrder, LAMBDA r : r \in c /\ getDocumentObject(r) = obj)

\* Expression::getDeps(), flattened in iteration order: object after object
\* by address; every entry keeps its property name so that the caller can
\* skip the whole-object entries.
getDeps(c) ==
    depsOf(c, allocation[1]) \o depsOf(c, allocation[2]) \o depsOf(c, allocation[3])

(***************************************************************************)
(* Graph builder.  A graph under construction is a record:                 *)
(*   nodes    the paths in the order they were first met; the index of a   *)
(*            path is its position minus one (boost::unordered_map nodes), *)
(*   revNodes index -> path, filled for the bound paths only,              *)
(*   edges    the edge list, pairs of indices, in insertion order.         *)
(***************************************************************************)
EmptyGraph == [nodes |-> <<>>, revNodes |-> <<>>, edges |-> <<>>]

HasNode(nodes, p) == \E i \in 1..Len(nodes) : nodes[i] = p

NodeIndex(nodes, p) == (CHOOSE i \in 1..Len(nodes) : nodes[i] = p) - 1

RECURSIVE InsertDepsAll(_, _, _, _), InsertDeps(_, _, _, _)
\* A dependency loop that would enter the whole-object dependencies too.
InsertDepsAll(path, deps, i, gs) ==
    IF i > Len(deps) THEN gs
    ELSE LET cPath == oidCanonicalPath(deps[i])
             nodes1 == IF HasNode(gs.nodes, cPath) THEN gs.nodes
                       ELSE Append(gs.nodes, cPath)
             e == <<NodeIndex(nodes1, path), NodeIndex(nodes1, cPath)>>
         IN InsertDepsAll(path, deps, i + 1,
                          [gs EXCEPT !.nodes = nodes1, !.edges = Append(@, e)])

InsertDeps(path, deps, i, gs) ==
    IF i > Len(deps) THEN gs
    ELSE IF PropertyName(deps[i]) = "" THEN InsertDeps(path, deps, i + 1, gs)
    ELSE LET cPath == oidCanonicalPath(deps[i])
             nodes1 == IF HasNode(gs.nodes, cPath) THEN gs.nodes
                       ELSE Append(gs.nodes, cPath)
             e == <<NodeIndex(nodes1, path), NodeIndex(nodes1, cPath)>>
         IN InsertDeps(path, deps, i + 1,
                       [gs EXCEPT !.nodes = nodes1, !.edges = Append(@, e)])

buildGraphStructures(path, c, gs) ==
    LET gs1 == IF ~HasNode(gs.nodes, path)
               THEN [gs EXCEPT !.nodes = Append(@, path),
                               !.revNodes = (Len(gs.nodes) :> path) @@ @]
               ELSE [gs EXCEPT !.revNodes = (NodeIndex(gs.nodes, path) :> path) @@ @]
    IN InsertDeps(path, getDeps(c), 1, gs1)

\* The loop of buildGraph over the bindings, taken in the order `exprs`
\* (a sequence of <<path, content>>) in which the map yields them.
RECURSIVE buildLoop(_, _, _, _)
buildLoop(exprs, i, output, gs) ==
    IF i > Len(exprs) THEN gs
    ELSE IF output >= 0 /\ isOutput(exprs[i][1]) # (output > 0)
         THEN buildLoop(exprs, i + 1, output, gs)
         ELSE buildLoop(exprs, i + 1, output,
                        buildGraphStructures(exprs[i][1], exprs[i][2], gs))

\* The filter looks the property of every binding up before it builds.
buildThrowsNoProperty(exprs, output) ==
    output >= 0 /\ \E i \in 1..Len(exprs) : ~getProperty(exprs[i][1])

MaxOf(S) == CHOOSE m \in S : \A x \in S : x <= m

\* DiGraph(revNodes.size()) followed by add_edge, which grows the vertex
\* vector up to the largest endpoint it is given.
numVertices(gs) ==
    MaxOf({Cardinality(DOMAIN gs.revNodes)}
          \cup {gs.edges[i][1] + 1 : i \in 1..Len(gs.edges)}
          \cup {gs.edges[i][2] + 1 : i \in 1..Len(gs.edges)})

RECURSIVE outEdges(_, _, _)
outEdges(edges, i, u) ==
    IF i > Len(edges) THEN <<>>
    ELSE IF edges[i][1] = u THEN <<edges[i][2]>> \o outEdges(edges, i + 1, u)
         ELSE outEdges(edges, i + 1, u)

(***************************************************************************)
(* boost::depth_first_search over the vertices 0..n-1 in index order, with *)
(* the out-edges of a vertex in insertion order.  The visitor records the  *)
(* source of every back edge (cycle_detector keeps the last one) and the   *)
(* finish order (topological_sort writes a vertex when it finishes).       *)
(***************************************************************************)
RECURSIVE dfsVisit(_, _, _), dfsEdges(_, _, _, _)
dfsVisit(edges, u, st) ==
    LET st1 == [st EXCEPT !.color[u] = "gray"]
        st2 == dfsEdges(edges, u, outEdges(edges, 1, u), st1)
    IN [st2 EXCEPT !.color[u] = "black", !.finish = Append(@, u)]

dfsEdges(edges, u, out, st) ==
    IF out = <<>> THEN st
    ELSE LET v == Head(out)
             st1 == CASE st.color[v] = "white" -> dfsVisit(edges, v, st)
                      [] st.color[v] = "gray" ->
                             [st EXCEPT !.has_cycle = TRUE, !.src = u]
                      [] OTHER -> st
         IN dfsEdges(edges, u, Tail(out), st1)

RECURSIVE dfsFrom(_, _, _, _)
dfsFrom(edges, n, u, st) ==
    IF u >= n THEN st
    ELSE IF st.color[u] = "white"
         THEN dfsFrom(edges, n, u + 1, dfsVisit(edges, u, st))
         ELSE dfsFrom(edges, n, u + 1, st)

depth_first_search(gs) ==
    LET n == numVertices(gs)
    IN dfsFrom(gs.edges, n, 0,
               [color |-> [u \in 0..(n - 1) |-> "white"],
                has_cycle |-> FALSE, src |-> -1, finish |-> <<>>])

\* buildGraph: the graph structures, the search, and whether it throws.
buildGraph(exprs, output) ==
    IF buildThrowsNoProperty(exprs, output)
    THEN [throws |-> "PathInvalid", gs |-> EmptyGraph, finish |-> <<>>]
    ELSE LET gs == buildLoop(exprs, 1, output, EmptyGraph)
             st == depth_first_search(gs)
         IN [throws |-> IF st.has_cycle THEN "CyclicDependency" ELSE "",
             gs |-> gs, finish |-> st.finish]

\* computeEvaluationOrder: the finish order, kept where revNodes has an entry.
RECURSIVE orderOf(_, _, _)
orderOf(revNodes, c, i) ==
    IF i > Len(c) THEN <<>>
    ELSE IF c[i] \in DOMAIN revNodes
         THEN <<revNodes[c[i]]>> \o orderOf(revNodes, c, i + 1)
         ELSE orderOf(revNodes, c, i + 1)

computeEvaluationOrder(exprs, output) ==
    LET g == buildGraph(exprs, output)
    IN IF g.throws # "" THEN [throws |-> g.throws, order |-> <<>>]
       ELSE [throws |-> "", order |-> orderOf(g.gs.revNodes, g.finish, 1)]

(***************************************************************************)
(* State of the engine and of what it touches in the host.                 *)
(***************************************************************************)
VARIABLES
    expressions,          \* path -> [id, comment]: the binding store
    restoredExpressions,  \* the staging store filled by Restore
    heap,                 \* id -> content of every live expression object
    backLinks,            \* object -> number of back-links to the owner that
                          \* the engine has added and not removed
    strayRemoved,         \* objects on which the last operation called
                          \* _removeBackLink without a back-link of the engine
    changed,              \* expressionChanged signals of the last operation:
                          \* path -> how many times it was signalled
    adjusted,             \* the keys of the bindings on whose expression the
                          \* last operation called Expression::adjustLinks
    signalCounter,        \* the number of atomic change scopes that are open
    log,                  \* what the last operation signalled, in order:
                          \* aboutToSetValue, changed, hasSetValue
    running,              \* the re-entrancy flag of execute
    evaluationOrder,      \* execute: the order computed at entry
    pos,                  \* execute: index of the next binding to evaluate
    written,              \* execute: paths written by setPathValue, in order
    output,               \* execute: the filter of the call
    last,                 \* the last call: operation, arguments, outcome
    calls,                \* the number of calls made so far
    validator             \* whether a validator callback is installed

vars == <<allocation, document, validator, expressions, restoredExpressions, heap, backLinks, strayRemoved,
          changed, adjusted, signalCounter, log, running, evaluationOrder, pos, written,
          output, last, calls>>

\* The engine proper, as a record the handlers transform.
Engine == [expressions |-> expressions, heap |-> heap, backLinks |-> backLinks,
           strayRemoved |-> strayRemoved, changed |-> changed,
           adjusted |-> adjusted, signalCounter |-> signalCounter, log |-> log,
           validator |-> validator]

contentOf(e, k) == e.heap[e.expressions[k].id]

\* ExpressionInfo(expression, comment): a null comment is the empty string.
ExpressionInfo(id, comment) == [id |-> id, comment |-> comment]

\* PropertyExpressionEngine::canonicalPath, for a path that resolves.
canonicalPath(p) ==
    IF getDocumentObject(p) # Owner THEN p ELSE oidCanonicalPath(p)

\* DocumentObject::getInListEx(true): every object that links to obj,
\* directly or through other objects; the engine's back-links are links
\* from the owner.
LinksOf(bl) == HostLinks \cup {<<Owner, d>> : d \in {o \in Objects : bl[o] > 0}}

RECURSIVE Reaching(_, _)
Reaching(links, S) ==
    LET S1 == S \cup {l[1] : l \in {m \in links : m[2] \in S}}
    IN IF S1 = S THEN S ELSE Reaching(links, S1)

getInListEx(obj, bl) ==
    LET direct == {l[1] : l \in {m \in LinksOf(bl) : m[2] = obj}}
    IN IF direct = {} THEN {} ELSE Reaching(LinksOf(bl), direct)

\* An order in which a map yields its entries; used where the outcome does
\* not depend on the order.
RECURSIVE SeqOfSet(_)
SeqOfSet(S) ==
    IF S = {} THEN <<>>
    ELSE LET x == CHOOSE y \in S : TRUE IN <<x>> \o SeqOfSet(S \ {x})

\* The bindings of a store as the sequence of <<path, content>> that an
\* iteration in the order `ord` yields.
bindingsIn(e, ord) == [i \in 1..Len(ord) |-> <<ord[i], contentOf(e, ord[i])>>]

\* expressionChanged(path)
expressionChanged(e, p) ==
    [e EXCEPT !.changed = IF p \in DOMAIN @ THEN [@ EXCEPT ![p] = @ + 1]
                          ELSE (p :> 1) @@ @,
              !.log = Append(@, "changed")]

\* Property::aboutToSetValue and Property::hasSetValue: the bracket around a
\* change of the property, seen by the container.
aboutToSetValue(e) == [e EXCEPT !.log = Append(@, "aboutToSetValue")]

hasSetValue(e) == [e EXCEPT !.log = Append(@, "hasSetValue")]

\* AtomicPropertyChange: making one opens a scope, and the outermost scope
\* calls aboutToSetValue; its end closes the scope, and the end of the
\* outermost scope calls hasSetValue.
AtomicPropertyChange(e) ==
    [(IF e.signalCounter = 0 THEN aboutToSetValue(e) ELSE e)
        EXCEPT !.signalCounter = @ + 1]

endAtomicPropertyChange(e) ==
    LET e1 == [e EXCEPT !.signalCounter = @ - 1]
    IN IF e1.signalCounter = 0 THEN hasSetValue(e1) ELSE e1

\* DocumentObject::_removeBackLink(owner) and _addBackLink(owner), called
\* for every object of the set objs.
removeBackLinks(e, objs) ==
    [e EXCEPT !.backLinks = [o \in Objects |->
                               IF o \in objs /\ @[o] > 0 THEN @[o] - 1 ELSE @[o]],
              !.strayRemoved = @ \cup {o \in objs : e.backLinks[o] = 0}]

addBackLinks(e, objs) ==
    [e EXCEPT !.backLinks = [o \in Objects |->
                               IF o \in objs THEN @[o] + 1 ELSE @[o]]]

\* getPathValue(path): the binding held for the path, or nothing.
Absent == [id |-> NullExpr, comment |-> ""]

getPathValue(ex, path) ==
    IF canonicalPath(path) \in DOMAIN ex THEN ex[canonicalPath(path)] ELSE Absent

(***************************************************************************)
(* validateExpression: "" when the expression may be bound at usePath.     *)
(***************************************************************************)
\* The validator callback that an owner installs on its engine: its
\* diagnostic for binding the expression c at usePath, "" when it accepts.
ValidatorFunc(usePath, c) ==
    IF usePath = "C" /\ "Y.v" \in c THEN "rejected" ELSE ""

\* setValidator(f)
setValidator(e) == [e EXCEPT !.validator = TRUE]

validateExpression(e, usePath, c) ==
    LET inList == getInListEx(getDocumentObject(usePath), e.backLinks)
        others == SeqOfSet(DOMAIN e.expressions \ {usePath})
        newExpressions == bindingsIn(e, others) \o <<<<usePath, c>>>>
        g == buildGraph(newExpressions, -1)
    IN IF e.validator /\ ValidatorFunc(usePath, c) # ""
       THEN ValidatorFunc(usePath, c)
       ELSE IF getDepObjects(c) \cap inList # {} THEN "cyclic reference"
       ELSE g.throws

\* The identity of the next expression object to be made.
newId(h) == Cardinality(DOMAIN h) + 1

(***************************************************************************)
(* setValue(path, expr, comment): the engine after the call and how the    *)
(* call ended ("ok", "same" for the early return on an identical           *)
(* expression, or the error thrown).                                       *)
(***************************************************************************)
setValueInstall(e, usePath, expr, comment) ==
    LET e1 == IF usePath \in DOMAIN e.expressions
              THEN removeBackLinks(e, getDepObjects(contentOf(e, usePath)) \ {Owner})
              ELSE e
        e2 == [e1 EXCEPT !.expressions =
                  (usePath :> ExpressionInfo(expr, comment)) @@ @]
        e3 == addBackLinks(e2, getDepObjects(e.heap[expr]) \ {Owner})
    IN expressionChanged(e3, usePath)

\* A setValue(path, nullptr) that would withdraw the back-links and signal the
\* change but leave the binding in the store.
setValueEraseKept(e, usePath) ==
    LET e1 == IF usePath \in DOMAIN e.expressions
              THEN removeBackLinks(e, getDepObjects(contentOf(e, usePath)) \ {Owner})
              ELSE e
    IN expressionChanged(e1, usePath)

setValueErase(e, usePath) ==
    LET e1 == IF usePath \in DOMAIN e.expressions
              THEN removeBackLinks(e, getDepObjects(contentOf(e, usePath)) \ {Owner})
              ELSE e
        e2 == [e1 EXCEPT !.expressions =
                  [k \in DOMAIN @ \ {usePath} |-> @[k]]]
    IN expressionChanged(e2, usePath)

\* A setValue without the test for the expression object already installed.
setValueAlways(e, path, expr, comment) ==
    IF ~getProperty(path) THEN [e |-> e, res |-> "PathInvalid"]
    ELSE LET usePath == canonicalPath(path)
         IN IF expr # NullExpr
            THEN LET error == validateExpression(e, usePath, e.heap[expr])
                 IN IF error # "" THEN [e |-> e, res |-> error]
                    ELSE [e |-> endAtomicPropertyChange(
                                    setValueInstall(AtomicPropertyChange(e),
                                                    usePath, expr, comment)),
                          res |-> "ok"]
            ELSE [e |-> endAtomicPropertyChange(
                            setValueErase(AtomicPropertyChange(e), usePath)),
                  res |-> "ok"]

setValue(e, path, expr, comment) ==
    IF ~getProperty(path) THEN [e |-> e, res |-> "PathInvalid"]
    ELSE LET usePath == canonicalPath(path)
         IN IF usePath \in DOMAIN e.expressions
               /\ expr = e.expressions[usePath].id
            THEN [e |-> e, res |-> "same"]
            ELSE IF expr # NullExpr
            THEN LET error == validateExpression(e, usePath, e.heap[expr])
                 IN IF error # "" THEN [e |-> e, res |-> error]
                    ELSE [e |-> endAtomicPropertyChange(
                                    setValueInstall(AtomicPropertyChange(e),
                                                    usePath, expr, comment)),
                          res |-> "ok"]
            ELSE [e |-> endAtomicPropertyChange(
                            setValueErase(AtomicPropertyChange(e), usePath)),
                  res |-> "ok"]

(***************************************************************************)
(* onDocumentRestored: setValue for every staged binding, in the order     *)
(* `ord` in which the staging map yields them; an error ends the handler.  *)
(***************************************************************************)
\* Fresh identities for the keys of the sequence `keys`, above `top`.
newIds(keys, top) == [k \in {keys[i] : i \in 1..Len(keys)} |->
                        top + (CHOOSE i \in 1..Len(keys) : keys[i] = k)]

\* Expression::toString and ExpressionParser::parse: the string names the
\* paths the expression references; parsing it gives an expression that
\* references the paths named.
toString(c) == inTextOrder(c)

parse(str) == {str[i] : i \in 1..Len(str)}

\* Save(writer): the count, and one element for every binding, in the order
\* `ord` of the iteration: the path, the expression, and the comment
\* attribute when the comment is not empty.
Save(e, ord) ==
    [count |-> Cardinality(DOMAIN e.expressions),
     elements |-> [i \in 1..Len(ord) |->
                     [path |-> ord[i],
                      expression |-> toString(contentOf(e, ord[i])),
                      comment |-> IF e.expressions[ord[i]].comment # ""
                                  THEN <<e.expressions[ord[i]].comment>>
                                  ELSE <<>>]]]

\* The loop of Restore over the first `count` elements of a saved document:
\* path as read -> <<expression, comment>>, a later element of the same path
\* replacing an earlier one, a missing comment attribute read as no comment.
readDocument(doc) ==
    LET read == {i \in 1..Len(doc.elements) : i <= doc.count}
        lastOf(k) == CHOOSE i \in read :
                        /\ doc.elements[i].path = k
                        /\ \A j \in read : doc.elements[j].path = k => j <= i
    IN [k \in {doc.elements[i].path : i \in read} |->
           <<parse(doc.elements[lastOf(k)].expression),
             IF doc.elements[lastOf(k)].comment = <<>> THEN ""
             ELSE doc.elements[lastOf(k)].comment[1]>>]

\* Restore(reader): the staging store, with a new expression object for
\* every element read, numbered above `top`, and these objects.
Restore(doc, top) ==
    LET ids == newIds(SeqOfSet(DOMAIN doc), top)
    IN [rex |-> [k \in DOMAIN doc |-> ExpressionInfo(ids[k], doc[k][2])],
        heap |-> [i \in {ids[k] : k \in DOMAIN doc} |->
                     doc[CHOOSE k \in DOMAIN doc : ids[k] = i][1]]]

RECURSIVE restoreLoop(_, _, _, _)
restoreLoop(e, rex, ord, i) ==
    IF i > Len(ord) THEN [e |-> e, res |-> "ok"]
    ELSE LET r == setValue(e, ord[i], rex[ord[i]].id, rex[ord[i]].comment)
         IN IF r.res \in {"ok", "same"} THEN restoreLoop(r.e, rex, ord, i + 1)
            ELSE r

\* An onDocumentRestored that would move the staged bindings into the live
\* store as they are.
onDocumentRestoredAssign(e, rex, ord) ==
    [e |-> [e EXCEPT !.expressions = rex @@ @], res |-> "ok"]

\* An onDocumentRestored that would open no scope of its own around the
\* setValue calls.
onDocumentRestoredNoScope(e, rex, ord) == restoreLoop(e, rex, ord, 1)

onDocumentRestored(e, rex, ord) ==
    LET r == restoreLoop(AtomicPropertyChange(e), rex, ord, 1)
    IN [e |-> endAtomicPropertyChange(r.e), res |-> r.res]

(***************************************************************************)
(* Copy(): a new engine holding a copy of every binding, the copies        *)
(* numbered above `top`: its store and its expression objects.             *)
(***************************************************************************)
Copy(e, top) ==
    LET ids == newIds(SeqOfSet(DOMAIN e.expressions), top)
    IN [expressions |-> [k \in DOMAIN e.expressions |->
                            ExpressionInfo(ids[k], e.expressions[k].comment)],
        heap |-> [i \in {ids[k] : k \in DOMAIN e.expressions} |->
                     contentOf(e, CHOOSE k \in DOMAIN e.expressions : ids[k] = i)],
        validator |-> e.validator]

(***************************************************************************)
(* Paste(from): drop every binding and its back-links, then install a copy *)
(* of every binding of the store `from` under its key.  `ids` gives the    *)
(* identity of each copy; the objects of `from` are in the heap of e.  The *)
(* validator of `from` becomes the validator of the engine.                *)
(***************************************************************************)
RECURSIVE pasteClear(_, _), pasteLoopShared(_, _, _, _), pasteLoop(_, _, _, _)
pasteClear(e, keys) ==
    IF keys = <<>> THEN [e EXCEPT !.expressions = <<>>]
    ELSE pasteClear(removeBackLinks(e, getDepObjects(contentOf(e, Head(keys))) \ {Owner}),
                    Tail(keys))

\* A Paste that would take over the bindings of `from` as they are, sharing
\* its expression objects.
pasteLoopShared(e, from, keys, ids) ==
    IF keys = <<>> THEN e
    ELSE LET k == Head(keys)
             e1 == [e EXCEPT !.expressions = (k :> from[k]) @@ @]
             e2 == addBackLinks(e1, getDepObjects(e.heap[from[k].id]) \ {Owner})
         IN pasteLoopShared(expressionChanged(e2, k), from, Tail(keys), ids)

pasteLoop(e, from, keys, ids) ==
    IF keys = <<>> THEN e
    ELSE LET k == Head(keys)
             e1 == [e EXCEPT !.heap = (ids[k] :> e.heap[from[k].id]) @@ @,
                             !.expressions =
                                 (k :> ExpressionInfo(ids[k], from[k].comment)) @@ @]
             e2 == addBackLinks(e1, getDepObjects(e.heap[from[k].id]) \ {Owner})
         IN pasteLoop(expressionChanged(e2, k), from, Tail(keys), ids)

Paste(e, from, ids) ==
    LET e1 == pasteLoop(pasteClear(AtomicPropertyChange(e),
                                   SeqOfSet(DOMAIN e.expressions)),
                        from.expressions, SeqOfSet(DOMAIN from.expressions), ids)
    IN endAtomicPropertyChange([e1 EXCEPT !.validator = from.validator])

(***************************************************************************)
(* renameExpressions(paths), for a map of one entry old -> new, with the   *)
(* store iterated in the order `ord`.                                      *)
(***************************************************************************)
RECURSIVE renameLoop(_, _, _, _, _)
renameLoop(ex, ord, i, canonicalPaths, newExpressions) ==
    IF i > Len(ord) THEN newExpressions
    ELSE LET k == ord[i]
             key == IF k \in DOMAIN canonicalPaths THEN canonicalPaths[k] ELSE k
         IN renameLoop(ex, ord, i + 1, canonicalPaths,
                       (key :> ex[k]) @@ newExpressions)

RECURSIVE changedAll(_, _)
changedAll(e, keys) ==
    IF keys = <<>> THEN e
    ELSE changedAll(expressionChanged(e, Head(keys)), Tail(keys))

renameExpressions(e, old, new, ord) ==
    IF ~getProperty(old) THEN [e |-> e, res |-> "PathInvalid"]
    ELSE LET canonicalPaths == (canonicalPath(old) :> new)
             newExpressions == renameLoop(e.expressions, ord, 1, canonicalPaths, <<>>)
             e1 == [aboutToSetValue(e) EXCEPT !.expressions = newExpressions]
         IN [e |-> hasSetValue(changedAll(e1, SeqOfSet(DOMAIN newExpressions))),
             res |-> "ok"]

(***************************************************************************)
(* renameObjectIdentifiers(paths), for a map of one entry old -> new: the  *)
(* visitor replaces, in every expression, each variable whose canonical    *)
(* path is `old` by `new`.                                                 *)
(***************************************************************************)
renameObjectIdentifier(c, old, new) ==
    {IF oidCanonicalPath(r) = old THEN new ELSE r : r \in c}

renameObjectIdentifiers(e, old, new) ==
    LET held == {e.expressions[k].id : k \in DOMAIN e.expressions}
    IN [e EXCEPT !.heap = [i \in DOMAIN @ |->
                             IF i \in held THEN renameObjectIdentifier(@[i], old, new)
                             ELSE @[i]]]

(***************************************************************************)
(* slotObjectRenamed(obj): one RelabelDocumentObjectExpressionVisitor is   *)
(* built before the loop and visits the bindings in iteration order.  An   *)
(* identifier of the model names its object, not the object's label, so    *)
(* the rewritten expression is the same set of identifiers; what a visit   *)
(* leaves behind is the state of the visitor, the number of references to  *)
(* obj it has rewritten so far.  The handler holds getChanged() in a bool  *)
(* before each visit and signals the binding when getChanged() after the   *)
(* visit differs from it.  getChanged() is either a flag, set once the     *)
(* visitor has rewritten something, or the count of the rewrites.          *)
(***************************************************************************)
RelabelModes == {"flag", "count"}

getChanged(v, mode) ==
    IF mode = "flag" THEN (IF v > 0 THEN 1 ELSE 0) ELSE v

relabelVisit(v, c, obj) ==
    v + Cardinality({r \in c : getDocumentObject(r) = obj})

RECURSIVE slotObjectRenamed(_, _, _, _, _)
slotObjectRenamed(e, obj, keys, v, mode) ==
    IF keys = <<>> THEN e
    ELSE LET k == Head(keys)
             before == IF getChanged(v, mode) # 0 THEN 1 ELSE 0
             v1 == relabelVisit(v, contentOf(e, k), obj)
         IN slotObjectRenamed(IF before # getChanged(v1, mode)
                              THEN expressionChanged(e, k) ELSE e,
                              obj, Tail(keys), v1, mode)

(***************************************************************************)
(* slotObjectDeleted(obj): visit the bindings in iteration order with one  *)
(* ObjectDeletedExpressionVisitor, which finds obj in an expression that   *)
(* has a variable whose path resolves to obj; touch the engine and return  *)
(* at the first binding after which the visitor has found obj.  TRUE when  *)
(* the engine is touched.  The store is not written.                       *)
(***************************************************************************)
RECURSIVE slotObjectDeleted(_, _, _)
\* A scan that would stop after the first binding visited.
slotObjectDeletedFirst(e, obj, keys) ==
    /\ keys # <<>>
    /\ \E r \in contentOf(e, Head(keys)) : getDocumentObject(r) = obj

slotObjectDeleted(e, obj, keys) ==
    IF keys = <<>> THEN FALSE
    ELSE IF \E r \in contentOf(e, Head(keys)) : getDocumentObject(r) = obj THEN TRUE
    ELSE slotObjectDeleted(e, obj, Tail(keys))

(***************************************************************************)
(* getDocumentObjectDeps, getPathsToDocumentObject and breakDependency.    *)
(***************************************************************************)
getDocumentObjectDeps(e) ==
    UNION {getDepObjects(contentOf(e, k)) : k \in DOMAIN e.expressions} \ {Owner}

\* The identifiers through which the expressions reference obj: those of
\* every binding that references it, appended binding after binding in the
\* order `ord` of the iteration.
RECURSIVE pathsLoop(_, _, _, _)
pathsLoop(e, obj, ord, i) ==
    IF i > Len(ord) THEN <<>>
    ELSE depsOf(contentOf(e, ord[i]), obj) \o pathsLoop(e, obj, ord, i + 1)

getPathsToDocumentObject(e, obj, ord) ==
    IF obj = Owner THEN <<>> ELSE pathsLoop(e, obj, ord, 1)

\* setValue(id, nullptr) for every path of `paths`, in order.
RECURSIVE breakLoop(_, _)
breakLoop(e, paths) ==
    IF paths = <<>> THEN [e |-> e, res |-> "ok"]
    ELSE LET r == setValue(e, Head(paths), NullExpr, "")
         IN IF r.res \in {"ok", "same"} THEN breakLoop(r.e, Tail(paths))
            ELSE r

\* breakDependency({obj}), the store iterated in the order `ord`.
breakDependency(e, obj, ord) ==
    IF obj \in getDocumentObjectDeps(e)
    THEN breakLoop(e, getPathsToDocumentObject(e, obj, ord))
    ELSE [e |-> e, res |-> "ok"]

(***************************************************************************)
(* adjustLinks(inList), the store iterated in the order `keys`.            *)
(* Expression::adjustLinks rewrites only references that go through a      *)
(* sub-object; the references modelled here are plain, so the content of   *)
(* the expression stays as it is.  It throws for the bindings `failing`;   *)
(* adjustLinks then ends with an error of its own, the back-links of that  *)
(* binding withdrawn.                                                      *)
(***************************************************************************)
expressionAdjustLinks(c, inList) == c

\* A test that would count the owner among the objects to adjust for.
need_adjustOwner(e, k, inList) ==
    getDepObjects(contentOf(e, k)) \cap inList # {}

need_adjust(e, k, inList) ==
    (getDepObjects(contentOf(e, k)) \ {Owner}) \cap inList # {}

adjustOne(e, k, inList) ==
    LET depObjs == getDepObjects(contentOf(e, k))
        e1 == removeBackLinks(e, depObjs)
        id == e.expressions[k].id
        e2 == [e1 EXCEPT !.heap[id] = expressionAdjustLinks(@, inList),
                         !.adjusted = @ \cup {k}]
        e3 == addBackLinks(e2, getDepObjects(e2.heap[id]) \ {Owner})
    IN expressionChanged(e3, k)

adjustThrown(e, k) ==
    [removeBackLinks(e, getDepObjects(contentOf(e, k)))
        EXCEPT !.adjusted = @ \cup {k}]

RECURSIVE adjustLoop(_, _, _, _)
adjustLoop(e, keys, inList, failing) ==
    IF keys = <<>> THEN [e |-> e, res |-> "true"]
    ELSE IF need_adjust(e, Head(keys), inList)
         THEN IF Head(keys) \in failing
              THEN [e |-> adjustThrown(e, Head(keys)), res |-> "AdjustLinkFailed"]
              ELSE adjustLoop(adjustOne(e, Head(keys), inList), Tail(keys),
                              inList, failing)
         ELSE adjustLoop(e, Tail(keys), inList, failing)

adjustLinks(e, inList, keys, failing) ==
    IF \E k \in DOMAIN e.expressions : need_adjust(e, k, inList)
    THEN LET r == adjustLoop(AtomicPropertyChange(e), keys, inList, failing)
         IN [e |-> endAtomicPropertyChange(r.e), res |-> r.res]
    ELSE [e |-> e, res |-> "false"]

(***************************************************************************)
(* Expression objects: allocation and release.                             *)
(***************************************************************************)
\* Identities are told apart, never ordered: after every call the live
\* objects are numbered 1, 2, ... in the order of the keys that hold them,
\* the store before the staging store.
RECURSIVE idsIn(_, _)
idsIn(st, keys) ==
    IF keys = <<>> THEN <<>>
    ELSE <<st[Head(keys)].id>> \o idsIn(st, Tail(keys))

RECURSIVE firstSeen(_, _)
firstSeen(ids, seen) ==
    IF ids = <<>> THEN <<>>
    ELSE IF Head(ids) \in seen THEN firstSeen(Tail(ids), seen)
         ELSE <<Head(ids)>> \o firstSeen(Tail(ids), seen \cup {Head(ids)})

keysInOrder(st) == SelectSeq(PathOrder \o <<"bad">>, LAMBDA k : k \in DOMAIN st)

\* The live objects, store first, each once.
liveSeq(ex, rex) ==
    firstSeen(idsIn(ex, keysInOrder(ex)) \o idsIn(rex, keysInOrder(rex)), {})

\* The number under which object i is kept; Released if no store holds it.
numberOf(live, i) ==
    IF i = NullExpr THEN NullExpr
    ELSE IF \E n \in 1..Len(live) : live[n] = i
         THEN CHOOSE n \in 1..Len(live) : live[n] = i
         ELSE Released

renumber(st, live) ==
    [k \in DOMAIN st |-> [st[k] EXCEPT !.id = numberOf(live, @)]]

Perms(S) ==
    {f \in [1..Cardinality(S) -> S] :
        \A i, j \in 1..Cardinality(S) : f[i] = f[j] => i = j}

(***************************************************************************)
(* Inputs.                                                                 *)
(***************************************************************************)
\* The expressions that callers construct: <<content, comment>>.
NewExprs == {<<{}, "">>, <<{"B"}, "">>, <<{"A1"}, "c">>, <<{"X.v"}, "">>,
             <<{"Y.v"}, "">>, <<{"X."}, "">>, <<{"B", "X.v"}, "">>}

\* The paths that callers pass to setValue.
KeyInputs == {"A", "B", "C", "A1", "X.v", "bad"}

\* The engines that Paste copies from: path -> <<content, comment>>.
PasteSources == {<<>>,
                 ("A" :> <<{"B"}, "c">>),
                 ("C" :> <<{"X.v"}, "">>) @@ ("B" :> <<{}, "">>)}

\* The documents that Restore reads: path as written -> <<content, comment>>.
\* The last one is what Save writes of the store that setValue(A),
\* setValue(C) and renameExpressions({C -> A1}) leave.
RestoreDocs == {("A" :> <<{"X.v"}, "c">>),
                ("A1" :> <<{"B"}, "">>) @@ ("B" :> <<{"A1"}, "">>),
                ("A" :> <<{}, "">>) @@ ("A1" :> <<{"X.v"}, "">>)}

\* The maps, of one entry <<old, new>>, given to renameExpressions and to
\* renameObjectIdentifiers.
RenamePaths == {<<"C", "B">>, <<"B", "C">>, <<"C", "A1">>, <<"A1", "C">>,
                <<"bad", "B">>}

RenameIdentifiers == {<<"B", "C">>, <<"A", "B">>}

\* The object sets given to adjustLinks and the objects given to breakDependency.
InLists == {{"X"}, {"O", "Y"}}

BreakObjects == {"X", "Y"}

\* The store is explored up to this many bindings, and the back-link
\* count of an object up to this number.
MaxBindings == 2

MaxBackLinks == MaxBindings

MaxCalls == 3

(***************************************************************************)
(* Actions.                                                                *)
(***************************************************************************)
\* The bindings of a store as a caller reads them: path -> what the
\* expression says and the comment.
Bindings(ex, h) ==
    [k \in DOMAIN ex |-> [content |-> h[ex[k].id], comment |-> ex[k].comment]]

\* What the process can end with when execute calls eval() through the null
\* pointer of a binding that operator[] has just made.
NullDereference == {"SIGSEGV", "abort"}

Crashed == last.res \in NullDereference

\* A call of the engine can be made when no execute is in progress, and from
\* the property setter that a running execute has called.  A run is explored
\* up to MaxCalls calls and up to the end of its first execute.
CanCall ==
    /\ calls < MaxCalls
    /\ running => pos > 1
    /\ last.op # "execute"

Start == [Engine EXCEPT !.changed = <<>>, !.strayRemoved = {}, !.log = <<>>,
                       !.adjusted = {}]

Call(op, path, expr, res) ==
    [op |-> op, path |-> path, expr |-> expr, res |-> res]

\* The variables of the engine after a handler has produced the record e.
Commit(e, rex) ==
    LET live == liveSeq(e.expressions, rex)
    IN /\ \A o \in Objects : e.backLinks[o] <= MaxBackLinks
       /\ restoredExpressions' = renumber(rex, live)
       /\ expressions' = renumber(e.expressions, live)
       /\ backLinks' = e.backLinks
       /\ strayRemoved' = e.strayRemoved
       /\ changed' = e.changed
       /\ adjusted' = e.adjusted
       /\ signalCounter' = e.signalCounter
       /\ log' = e.log
       /\ validator' = e.validator
       /\ heap' = [n \in 1..Len(live) |-> e.heap[live[n]]]

\* The caller's expression object as the state after the call knows it.
Held(e, rex, id) == numberOf(liveSeq(e.expressions, rex), id)

\* One of the objects `ids` that a store holds after the call, Released when
\* none of them is held.
HeldAny(e, rex, ids) ==
    LET held == {Held(e, rex, i) : i \in ids} \ {Released}
    IN IF held = {} THEN Released ELSE CHOOSE n \in held : TRUE

\* A call other than execute leaves alone what execute keeps, and the
\* objects stay where they are.
NoExecute ==
    /\ calls' = calls + 1
    /\ UNCHANGED <<allocation, document, running, evaluationOrder, pos, written,
                   output>>

Init ==
    /\ allocation \in Allocations
    /\ document = <<>>
    /\ expressions = <<>>
    /\ restoredExpressions = <<>>
    /\ heap = <<>>
    /\ backLinks = [o \in Objects |-> 0]
    /\ strayRemoved = {}
    /\ changed = <<>>
    /\ running = FALSE
    /\ evaluationOrder = <<>>
    /\ pos = 1
    /\ written = <<>>
    /\ output = -1
    /\ last = Call("init", "", NullExpr, "ok")
    /\ calls = 0
    /\ signalCounter = 0
    /\ log = <<>>
    /\ adjusted = {}
    /\ validator = FALSE

\* Whether binding `path` keeps the store within the explored size.
Fits(path) ==
    \/ ~getProperty(path)
    \/ canonicalPath(path) \in DOMAIN expressions
    \/ Cardinality(DOMAIN expressions) < MaxBindings

\* setValue with an expression the caller has just built.
SetValueNew ==
    /\ CanCall
    /\ \E path \in KeyInputs, x \in NewExprs :
          LET id == newId(heap)
              e0 == [Start EXCEPT !.heap = (id :> x[1]) @@ @]
              r == setValue(e0, path, id, x[2])
          IN /\ Fits(path)
             /\ Commit(r.e, restoredExpressions)
             /\ last' = [op |-> "setValue", path |-> path,
                         expr |-> Held(r.e, restoredExpressions, id),
                         res |-> r.res, content |-> x[1]]
    /\ NoExecute

\* setValue with the very expression object the store holds for the path.
SetValueHeld ==
    /\ CanCall
    /\ \E path \in KeyInputs, comment \in Comments :
          /\ getProperty(path)
          /\ canonicalPath(path) \in DOMAIN expressions
          /\ LET id == expressions[canonicalPath(path)].id
                 r == setValue(Start, path, id, comment)
             IN /\ Commit(r.e, restoredExpressions)
                /\ last' = [op |-> "setValue", path |-> path,
                            expr |-> Held(r.e, restoredExpressions, id),
                            res |-> r.res, comment |-> comment]
    /\ NoExecute

\* setValue(path, nullptr)
SetValueNull ==
    /\ CanCall
    /\ \E path \in KeyInputs :
          LET r == setValue(Start, path, NullExpr, "")
          IN /\ Commit(r.e, restoredExpressions)
             /\ last' = Call("setValue", path, NullExpr, r.res)
    /\ NoExecute

\* An engine of another owner with the bindings src (path -> <<content,
\* comment>>), its expression objects numbered above `top`; no validator
\* has been installed on it.
otherEngine(src, top) ==
    LET ids == newIds(SeqOfSet(DOMAIN src), top)
    IN [expressions |-> [k \in DOMAIN src |-> ExpressionInfo(ids[k], src[k][2])],
        heap |-> [i \in {ids[k] : k \in DOMAIN src} |->
                     src[CHOOSE k \in DOMAIN src : ids[k] = i][1]],
        validator |-> FALSE]

\* Paste(from), `from` being the Copy of an engine `other`: of another engine,
\* or of this one.
DoPaste ==
    /\ CanCall
    /\ \E n \in 0..Cardinality(PasteSources) :
          LET top == Cardinality(DOMAIN heap)
              other == IF n = 0 THEN [expressions |-> expressions, heap |-> heap,
                                      validator |-> validator]
                       ELSE otherEngine(SeqOfSet(PasteSources)[n], top)
              size == Cardinality(DOMAIN other.expressions)
              from == Copy(other, top + size)
              ids == newIds(SeqOfSet(DOMAIN from.expressions), top + 2 * size)
              r == Paste([Start EXCEPT !.heap = from.heap @@ @], from, ids)
          IN /\ Commit(r, restoredExpressions)
             /\ last' = [op |-> "paste", path |-> "",
                         expr |-> HeldAny(r, restoredExpressions,
                                          {from.expressions[k].id :
                                             k \in DOMAIN from.expressions}),
                         res |-> "ok",
                         from |-> Bindings(other.expressions, other.heap)]
    /\ NoExecute

\* Restore(reader): stage the bindings of the document, each a new object.
DoRestore ==
    /\ CanCall
    /\ \E doc \in RestoreDocs :
          LET st == Restore(doc, Cardinality(DOMAIN heap))
          IN /\ Commit([Start EXCEPT !.heap = st.heap @@ @], st.rex)
             /\ last' = Call("restore", "", NullExpr, "ok")
    /\ NoExecute

\* Save(writer): the store is written, the elements in the order `ord`; the
\* engine is left as it is.  One saved document is kept at a time.
DoSave ==
    /\ CanCall
    /\ document = <<>>
    /\ \E ord \in Perms(DOMAIN expressions) :
          document' = <<Save(Engine, ord)>>
    /\ Commit(Start, restoredExpressions)
    /\ last' = Call("save", "", NullExpr, "ok")
    /\ calls' = calls + 1
    /\ UNCHANGED <<allocation, running, evaluationOrder, pos, written, output>>

\* PropertyExpressionEngine(): the saved document is opened again, and a new
\* engine of the owner is constructed in a newly allocated document.  The
\* new engine is explored for one call besides the reading of the document.
DoConstruct ==
    /\ last.op = "save"
    /\ ~running
    /\ allocation' \in Allocations
    /\ Commit([expressions |-> <<>>, heap |-> <<>>,
               backLinks |-> [o \in Objects |-> 0],
               strayRemoved |-> {}, changed |-> <<>>,
               adjusted |-> {}, signalCounter |-> 0, log |-> <<>>,
               validator |-> FALSE],
              <<>>)
    /\ last' = Call("construct", "", NullExpr, "ok")
    /\ calls' = MaxCalls - 1
    /\ running' = FALSE
    /\ evaluationOrder' = <<>>
    /\ pos' = 1
    /\ written' = <<>>
    /\ output' = -1
    /\ UNCHANGED document

\* Restore(reader) of the document that was saved, into the engine that
\* saved it or into the new one, whatever it has been called with in
\* between; `fresh` when the engine has not been called since it was
\* constructed.  Reading the document back is not counted as a call.
DoReload ==
    /\ document # <<>>
    /\ running => pos > 1
    /\ last.op # "execute"
    /\ LET st == Restore(readDocument(document[1]), Cardinality(DOMAIN heap))
       IN Commit([Start EXCEPT !.heap = st.heap @@ @], st.rex)
    /\ last' = [op |-> "reload", path |-> "", expr |-> NullExpr, res |-> "ok",
                fresh |-> (last.op = "construct")]
    /\ document' = <<>>
    /\ UNCHANGED <<allocation, calls, running, evaluationOrder, pos, written,
                   output>>

\* onDocumentRestored()
DoDocumentRestored ==
    /\ CanCall
    /\ \E ord \in Perms(DOMAIN restoredExpressions) :
          LET r == onDocumentRestored(Start, restoredExpressions, ord)
          IN /\ Cardinality(DOMAIN r.e.expressions) <= MaxBindings
             /\ Commit(r.e, restoredExpressions)
             /\ last' = [op |-> "onDocumentRestored", path |-> "",
                          expr |-> NullExpr, res |-> r.res, ord |-> ord]
    /\ NoExecute

\* renameExpressions({old -> new})
DoRenameExpressions ==
    /\ CanCall
    /\ \E m \in RenamePaths, ord \in Perms(DOMAIN expressions) :
          LET r == renameExpressions(Start, m[1], m[2], ord)
          IN /\ Commit(r.e, restoredExpressions)
             /\ last' = [op |-> "renameExpressions", path |-> m[1],
                          expr |-> NullExpr, res |-> r.res, to |-> m[2],
                          before |-> Bindings(expressions, heap)]
    /\ NoExecute

\* renameObjectIdentifiers({old -> new})
DoRenameObjectIdentifiers ==
    /\ CanCall
    /\ \E m \in RenameIdentifiers :
          /\ Commit(renameObjectIdentifiers(Start, m[1], m[2]), restoredExpressions)
          /\ last' = Call("renameObjectIdentifiers", "", NullExpr, "ok")
    /\ NoExecute

\* slotObjectRenamed(obj), the owner being in a document
DoObjectRenamed ==
    /\ CanCall
    /\ \E obj \in Objects, mode \in RelabelModes :
          \E ord \in Perms(DOMAIN expressions) :
             /\ Commit(slotObjectRenamed(Start, obj, ord, 0, mode), restoredExpressions)
             /\ last' = [op |-> "slotObjectRenamed", path |-> obj,
                         expr |-> NullExpr, res |-> "ok", mode |-> mode]
    /\ NoExecute

\* slotObjectDeleted(obj), the owner being in a document
DoObjectDeleted ==
    /\ CanCall
    /\ \E obj \in Objects :
          \E ord \in Perms(DOMAIN expressions) :
             /\ Commit(Start, restoredExpressions)
             /\ last' = Call("slotObjectDeleted", obj, NullExpr,
                             IF slotObjectDeleted(Start, obj, ord)
                             THEN "touched" ELSE "untouched")
    /\ NoExecute

\* setValidator(f), f being the validator of the owner.
DoSetValidator ==
    /\ CanCall
    /\ Commit(setValidator(Start), restoredExpressions)
    /\ last' = Call("setValidator", "", NullExpr, "ok")
    /\ NoExecute

\* breakDependency({obj})
DoBreakDependency ==
    /\ CanCall
    /\ \E obj \in BreakObjects :
          \E ord \in Perms(DOMAIN expressions) :
             LET r == breakDependency(Start, obj, ord)
             IN /\ Commit(r.e, restoredExpressions)
                /\ last' = Call("breakDependency", obj, NullExpr, r.res)
    /\ NoExecute

\* adjustLinks(inList)
DoAdjustLinks ==
    /\ CanCall
    /\ \E inList \in InLists, ord \in Perms(DOMAIN expressions),
          failing \in {{}} \cup {{k} : k \in DOMAIN expressions} :
          LET r == adjustLinks(Start, inList, ord, failing)
          IN /\ Commit(r.e, restoredExpressions)
             /\ last' = [op |-> "adjustLinks", path |-> "", expr |-> NullExpr,
                         res |-> r.res, inList |-> inList]
    /\ NoExecute

(***************************************************************************)
(* execute(output).  The call is taken apart at the points where a         *)
(* property setter runs, so that a nested call can be placed there.        *)
(***************************************************************************)
\* expressions[k], the operator[] of the map: the entry of k, which it makes,
\* with no expression and no comment, when k is not a key.
subscript(ex, k) ==
    IF k \in DOMAIN ex THEN ex ELSE (k :> ExpressionInfo(NullExpr, "")) @@ ex

\* execute does not touch the staging store, the expression objects or the
\* back-links and signals nothing.
KeepRest ==
    /\ UNCHANGED <<allocation, document, validator, restoredExpressions, heap,
                   backLinks>>
    /\ changed' = <<>>
    /\ strayRemoved' = {}
    /\ log' = <<>>
    /\ adjusted' = {}
    /\ UNCHANGED signalCounter

\* Outside the loop execute does not touch the binding store either.
Keep ==
    /\ UNCHANGED <<allocation, document, validator, expressions,
                   restoredExpressions, heap, backLinks>>
    /\ changed' = <<>>
    /\ strayRemoved' = {}
    /\ log' = <<>>
    /\ adjusted' = {}
    /\ UNCHANGED signalCounter

InCall == Keep /\ UNCHANGED calls

\* Entry: the guard, the resetter, computeEvaluationOrder.  execute counts
\* as a call of the run, but a run that has made MaxCalls calls can still end
\* with an execute.
ExecuteBegin ==
    /\ ~running
    /\ last.op # "execute"
    /\ calls' = IF calls < MaxCalls THEN calls + 1 ELSE calls
    /\ \E out \in {-1, 0, 1}, ord \in Perms(DOMAIN expressions) :
          LET r == computeEvaluationOrder(bindingsIn(Engine, ord), out)
          IN /\ output' = out
             /\ written' = <<>>
             /\ pos' = 1
             /\ IF r.throws # ""
                THEN /\ running' = FALSE
                     /\ evaluationOrder' = <<>>
                     /\ last' = Call("execute", "", NullExpr, r.throws)
                ELSE /\ running' = TRUE
                     /\ evaluationOrder' = r.order
                     /\ last' = Call("executeBegin", "", NullExpr, "ok")
    /\ Keep

\* What Expression::eval and Property::setPathValue can do in one turn:
\* return, or throw.
StepOutcomes == {"", "EvalError", "SetPathValueError"}

\* A turn of the loop in an execute that would set and clear the flag by
\* plain assignments: an exception leaves the flag set.
ExecuteStepNoResetter ==
    /\ running
    /\ ~Crashed
    /\ pos <= Len(evaluationOrder)
    /\ LET it == evaluationOrder[pos]
           found == subscript(expressions, it)
       IN IF ~getProperty(it)
          THEN /\ running' = TRUE
               /\ last' = Call("execute", it, NullExpr, "PathInvalid")
               /\ UNCHANGED <<pos, written, expressions>>
          ELSE IF getDocumentObject(it) # Owner
          THEN /\ running' = TRUE
               /\ last' = Call("execute", it, NullExpr, "ForeignProperty")
               /\ UNCHANGED <<pos, written, expressions>>
          ELSE /\ expressions' = found
               /\ IF found[it].id = NullExpr
                  THEN \E crash \in NullDereference :
                          /\ last' = Call("execute", it, NullExpr, crash)
                          /\ UNCHANGED <<running, pos, written>>
                  ELSE \E thrown \in StepOutcomes :
                          IF thrown # ""
                          THEN /\ running' = TRUE
                               /\ last' = Call("execute", it, NullExpr, thrown)
                               /\ UNCHANGED <<pos, written>>
                          ELSE /\ written' = Append(written, it)
                               /\ pos' = pos + 1
                               /\ last' = Call("executeStep", it, found[it].id, "ok")
                               /\ UNCHANGED running
    /\ UNCHANGED <<evaluationOrder, output, calls>>
    /\ KeepRest

\* A turn of the loop in an execute that would pass over a binding whose
\* target is no property of the owner and go on with the next one.
ExecuteStepSkips ==
    /\ running
    /\ ~Crashed
    /\ pos <= Len(evaluationOrder)
    /\ LET it == evaluationOrder[pos]
           found == subscript(expressions, it)
       IN IF ~getProperty(it) \/ getDocumentObject(it) # Owner
          THEN /\ pos' = pos + 1
               /\ last' = Call("executeStep", it, found[it].id, "ok")
               /\ UNCHANGED <<running, written, expressions>>
          ELSE /\ expressions' = found
               /\ IF found[it].id = NullExpr
                  THEN \E crash \in NullDereference :
                          /\ last' = Call("execute", it, NullExpr, crash)
                          /\ UNCHANGED <<running, pos, written>>
                  ELSE \E thrown \in StepOutcomes :
                          IF thrown # ""
                          THEN /\ running' = FALSE
                               /\ last' = Call("execute", it, NullExpr, thrown)
                               /\ UNCHANGED <<pos, written>>
                          ELSE /\ written' = Append(written, it)
                               /\ pos' = pos + 1
                               /\ last' = Call("executeStep", it, found[it].id, "ok")
                               /\ UNCHANGED running
    /\ UNCHANGED <<evaluationOrder, output, calls>>
    /\ KeepRest

\* One turn of the loop: look the property up, evaluate, setPathValue.  The
\* resetter clears the flag when an exception leaves execute.  When a call
\* made from a setter has taken the binding out of the store, expressions[*it]
\* makes an entry without an expression and eval() is called through its
\* null pointer: the process ends there, the flag as it is.
ExecuteStep ==
    /\ running
    /\ ~Crashed
    /\ pos <= Len(evaluationOrder)
    /\ LET it == evaluationOrder[pos]
           found == subscript(expressions, it)
       IN IF ~getProperty(it)
          THEN /\ running' = FALSE
               /\ last' = Call("execute", it, NullExpr, "PathInvalid")
               /\ UNCHANGED <<pos, written, expressions>>
          ELSE IF getDocumentObject(it) # Owner
          THEN /\ running' = FALSE
               /\ last' = Call("execute", it, NullExpr, "ForeignProperty")
               /\ UNCHANGED <<pos, written, expressions>>
          ELSE /\ expressions' = found
               /\ IF found[it].id = NullExpr
                  THEN \E crash \in NullDereference :
                          /\ last' = Call("execute", it, NullExpr, crash)
                          /\ UNCHANGED <<running, pos, written>>
                  ELSE \E thrown \in StepOutcomes :
                          IF thrown # ""
                          THEN /\ running' = FALSE
                               /\ last' = Call("execute", it, NullExpr, thrown)
                               /\ UNCHANGED <<pos, written>>
                          ELSE /\ written' = Append(written, it)
                               /\ pos' = pos + 1
                               /\ last' = Call("executeStep", it, found[it].id, "ok")
                               /\ UNCHANGED running
    /\ UNCHANGED <<evaluationOrder, output, calls>>
    /\ KeepRest

\* The loop is over: the resetter clears the flag and execute returns.
ExecuteReturn ==
    /\ running
    /\ ~Crashed
    /\ pos > Len(evaluationOrder)
    /\ running' = FALSE
    /\ last' = Call("execute", "", NullExpr, "ok")
    /\ UNCHANGED <<evaluationOrder, pos, written, output>>
    /\ InCall

\* A nested execute whose resetter would be made before the guard is looked
\* at: the return of the nested call clears the flag of the outer one.
ExecuteNestedClears ==
    /\ running
    /\ pos > 1
    /\ last.op # "execute"
    /\ last' = Call("executeNested", "", NullExpr, "ok")
    /\ running' = FALSE
    /\ UNCHANGED <<evaluationOrder, pos, written, output>>
    /\ InCall

\* execute called from the property setter of a running execute, before or
\* after other calls of that setter: it returns at once.
ExecuteNested ==
    /\ running
    /\ pos > 1
    /\ last.op # "execute"
    /\ last' = Call("executeNested", "", NullExpr, "ok")
    /\ UNCHANGED <<running, evaluationOrder, pos, written, output>>
    /\ InCall

\* prop->setPathValue (line 591) runs the setter of the property, which can
\* call the engine and then throw: the turn whose setter has made a call
\* ends with the setter's exception, the property counts as not written,
\* and the resetter clears the flag.
ExecuteSetterThrows ==
    /\ running
    /\ pos > 1
    /\ last.op \notin {"executeBegin", "executeStep", "execute"}
    /\ running' = FALSE
    /\ last' = Call("execute", evaluationOrder[pos - 1], NullExpr,
                    "SetPathValueError")
    /\ pos' = pos - 1
    /\ written' = SubSeq(written, 1, Len(written) - 1)
    /\ UNCHANGED <<evaluationOrder, output>>
    /\ InCall

Next ==
    \/ SetValueNew
    \/ SetValueHeld
    \/ SetValueNull
    \/ DoPaste
    \/ DoSetValidator
    \/ DoRestore
    \/ DoSave
    \/ DoConstruct
    \/ DoReload
    \/ DoObjectDeleted
    \/ DoObjectRenamed
    \/ DoDocumentRestored
    \/ DoRenameExpressions
    \/ DoRenameObjectIdentifiers
    \/ DoBreakDependency
    \/ DoAdjustLinks
    \/ ExecuteBegin
    \/ ExecuteStep
    \/ ExecuteReturn
    \/ ExecuteNested
    \/ ExecuteSetterThrows

Spec == Init /\ [][Next]_vars

(***************************************************************************)
(* What the claims speak of.                                               *)
(***************************************************************************)
\* The dependency graph over a store: an edge from every bound path to every
\* path its expression references, paths taken in canonical form.
DepEdges(ex, h) ==
    UNION {{<<oidCanonicalPath(k), oidCanonicalPath(r)>> : r \in h[ex[k].id]}
              : k \in DOMAIN ex}

RECURSIVE Closure(_)
Closure(R) ==
    LET R1 == R \cup {<<a[1], b[2]>> : a \in R, b \in {c \in R : TRUE}}
        R2 == {x \in R1 : x \in R \/ \E a \in R, b \in R :
                                       a[2] = b[1] /\ x = <<a[1], b[2]>>}
    IN IF R2 = R THEN R ELSE Closure(R2)

HasCycle(R) == \E x \in Closure(R) : x[1] = x[2]

Acyclic(ex, h) == ~HasCycle(DepEdges(ex, h))

\* A binding as a caller sees it: what the expression says, and the comment.
Binding(ex, h, k) == [content |-> h[ex[k].id], comment |-> ex[k].comment]

\* The bindings whose expression has the object o among its dependencies.
Referencing(ex, h, o) == {k \in DOMAIN ex : o \in getDepObjects(h[ex[k].id])}

Succeeded == last.res \in {"ok", "same"}

\* How often the last execute wrote the path p.
Writes(p) == Cardinality({i \in 1..Len(written) : written[i] = p})

WritePos(p) == CHOOSE i \in 1..Len(written) : written[i] = p

(***************************************************************************)
(* C1.  In every reachable state the dependency graph over the installed   *)
(* bindings is acyclic.                                                    *)
(***************************************************************************)
C1_AcyclicAlways == Acyclic(expressions, heap)

(***************************************************************************)
(* C2.  A setValue with a non-null expression whose graph, with the path   *)
(* rebound, has a cycle fails: so a call that does not fail leaves an      *)
(* acyclic graph; and a call that fails leaves the store and the           *)
(* back-links as they were and signals no change.                          *)
(***************************************************************************)
C2_CycleRejected ==
    [][(last'.op = "setValue" /\ last'.expr # NullExpr) =>
         /\ last'.res \in {"ok", "same"} => Acyclic(expressions', heap')
         /\ last'.res \notin {"ok", "same"} =>
               /\ DOMAIN expressions' = DOMAIN expressions
               /\ \A k \in DOMAIN expressions :
                     Binding(expressions', heap', k) = Binding(expressions, heap, k)
               /\ backLinks' = backLinks
               /\ changed' = <<>>]_vars

(***************************************************************************)
(* C3.  After a successful setValue the graph is acyclic and no installed  *)
(* binding references an object of the owner's reverse-link closure.       *)
(***************************************************************************)
C3_AfterSetValue ==
    (last.op = "setValue" /\ Succeeded) =>
        /\ Acyclic(expressions, heap)
        /\ \A k \in DOMAIN expressions :
              getDepObjects(heap[expressions[k].id])
                  \cap getInListEx(Owner, backLinks) = {}

(***************************************************************************)
(* C4.  After setValue(p, e) with non-null e has succeeded the store      *)
(* holds a deep copy of e at the canonical path of p, an object other     *)
(* than e: the store never shares the caller's expression object.         *)
(***************************************************************************)
C4_StoresClone ==
    (last.op = "setValue" /\ last.res = "ok" /\ last.expr # NullExpr) =>
        /\ canonicalPath(last.path) \in DOMAIN expressions
        /\ expressions[canonicalPath(last.path)].id # last.expr

(***************************************************************************)
(* C5.  After setValue(p, null) has returned, getValue(q) is absent for    *)
(* every q with the canonical path of p, and every other binding is as it  *)
(* was.                                                                    *)
(***************************************************************************)
C5_NullErases ==
    [][(last'.op = "setValue" /\ last'.expr = NullExpr /\ last'.res = "ok") =>
         /\ \A q \in AllPaths :
               (getProperty(q) /\ canonicalPath(q) = canonicalPath(last'.path))
                   => getPathValue(expressions', q) = Absent
         /\ DOMAIN expressions' = DOMAIN expressions \ {canonicalPath(last'.path)}
         /\ \A k \in DOMAIN expressions' :
               Binding(expressions', heap', k) = Binding(expressions, heap, k)]_vars

C5_Witness ==
    /\ last.op = "setValue" /\ last.expr = NullExpr /\ last.res = "ok"
    /\ last.path = "A1"
    /\ "A" \in DOMAIN changed
    /\ backLinks["X"] = 0
    /\ DOMAIN expressions = {"B"}

(***************************************************************************)
(* C6.  Every key of the store is in canonical form.                       *)
(***************************************************************************)
C6_KeysCanonical ==
    \A k \in DOMAIN expressions : getProperty(k) /\ canonicalPath(k) = k

(***************************************************************************)
(* C7.  For every object other than the owner, the back-links the engine   *)
(* has added and not removed are as many as the bindings that reference    *)
(* the object; and no operation removes a back-link on the owner or one    *)
(* the engine did not add.                                                 *)
(***************************************************************************)
C7_BackLinkBalance ==
    /\ \A o \in Objects \ {Owner} :
          backLinks[o] = Cardinality(Referencing(expressions, heap, o))
    /\ strayRemoved = {}

(***************************************************************************)
(* C8.  In one execute, when the expression of an evaluated binding a      *)
(* references the path of another evaluated binding b, b is written        *)
(* before a.                                                               *)
(***************************************************************************)
C8_DependencyOrder ==
    (last.op \in {"execute", "executeStep", "executeNested"}) =>
        \A a, b \in DOMAIN expressions :
            (/\ a # b
             /\ Writes(a) > 0 /\ Writes(b) > 0
             /\ \E r \in heap[expressions[a].id] :
                    oidCanonicalPath(r) = oidCanonicalPath(b))
                => WritePos(b) < WritePos(a)

(***************************************************************************)
(* C9.  A successful execute(-1) writes the property of every installed    *)
(* binding exactly once and writes nothing else.                           *)
(***************************************************************************)
C9_WritesEveryBinding ==
    (last.op = "execute" /\ last.res = "ok" /\ output = -1) =>
        /\ \A k \in DOMAIN expressions : Writes(k) = 1
        /\ \A i \in 1..Len(written) : written[i] \in DOMAIN expressions

(***************************************************************************)
(* C10.  execute(1) writes exactly the bindings whose property is flagged  *)
(* Output, execute(0) exactly those whose property is not.                 *)
(***************************************************************************)
C10_OutputFilter ==
    (last.op = "execute" /\ last.res = "ok" /\ output \in {0, 1}) =>
        {written[i] : i \in 1..Len(written)}
            = {k \in DOMAIN expressions : isOutput(k) = (output = 1)}

ExecuteOps == {"execute", "executeBegin", "executeStep", "executeNested"}

(***************************************************************************)
(* C11.  An execute called while an execute of the engine is in progress   *)
(* returns success at once: it evaluates and writes nothing, it leaves     *)
(* the running flag of the outer call set, and the outer call goes on      *)
(* from where it was and, when it returns with success, has written the    *)
(* whole evaluation order.                                                 *)
(***************************************************************************)
C11_NestedExecute ==
    [][/\ (last'.op = "executeNested") =>
            /\ last'.res = "ok"
            /\ running /\ running'
            /\ written' = written /\ pos' = pos
            /\ evaluationOrder' = evaluationOrder /\ output' = output
            /\ expressions' = expressions
       /\ (last.op = "executeNested" /\ last'.op \in ExecuteOps) =>
            /\ last'.op = "executeStep" =>
                  written' = Append(written, evaluationOrder[pos])
            /\ (last'.op = "execute" /\ last'.res = "ok") =>
                  (written' = evaluationOrder /\ ~running')]_vars

C11_Witness ==
    /\ last.op = "executeNested"
    /\ running
    /\ Len(written) = 1
    /\ Len(evaluationOrder) = 2

(***************************************************************************)
(* C12.  Whenever no execute is in progress the running flag is false:     *)
(* in a new engine, and after every outermost execute, returned            *)
(* or left by an exception, so the guard of a later execute finds it       *)
(* false.  (A process ended by the null dereference of line 588 has no     *)
(* later execute.)                                                         *)
(***************************************************************************)
C12_FlagCleared ==
    /\ (last.op = "init") => ~running
    /\ (last.op = "execute" /\ ~Crashed) => ~running
    /\ (last.op = "construct") => ~running

C12_Witness ==
    /\ last.op = "execute"
    /\ last.res = "EvalError"
    /\ Len(written) = 1
    /\ Len(evaluationOrder) = 2
    /\ ~running

(***************************************************************************)
(* C13.  breakDependency({obj}) removes every binding whose expression     *)
(* references obj and leaves every other binding as it was: afterwards no  *)
(* installed binding references obj.                                       *)
(***************************************************************************)
C13_BreakDependency ==
    [][(last'.op = "breakDependency" /\ last'.res = "ok") =>
         /\ Referencing(expressions', heap', last'.path) = {}
         /\ DOMAIN expressions' =
               DOMAIN expressions \ Referencing(expressions, heap, last'.path)
         /\ \A k \in DOMAIN expressions' :
               Binding(expressions', heap', k) = Binding(expressions, heap, k)]_vars

(***************************************************************************)
(* C14.  Restore fills the staging store only: the live store, the         *)
(* back-links and the signals are as before.  onDocumentRestored installs  *)
(* the staged bindings through setValue: when it returns, every staged     *)
(* path has its canonical path bound to a staged expression, the           *)
(* back-links have followed the references of the store (an object whose   *)
(* back-link a failed adjustLinks had withdrawn, so that the removal for a *)
(* replaced binding found none, gains the one of the new binding), and     *)
(* the store has passed the graph check; it fails only with an error of    *)
(* setValue.                                                               *)
(***************************************************************************)
C14_RestoreStages ==
    [][/\ (last'.op \in {"restore", "reload"}) =>
            /\ expressions' = expressions
            /\ backLinks' = backLinks
            /\ changed' = <<>>
       /\ (last'.op = "onDocumentRestored") =>
            /\ last'.res \in {"ok", "PathInvalid", "cyclic reference",
                              "CyclicDependency"}
            /\ (last'.res = "ok") =>
                 /\ \A k \in DOMAIN restoredExpressions' :
                       /\ getProperty(k)
                       /\ canonicalPath(k) \in DOMAIN expressions'
                       /\ \E j \in DOMAIN restoredExpressions' :
                             /\ canonicalPath(j) = canonicalPath(k)
                             /\ expressions'[canonicalPath(k)]
                                    = restoredExpressions'[j]
                 /\ \A o \in Objects \ {Owner} :
                       LET more == Cardinality(Referencing(expressions', heap', o))
                                     - Cardinality(Referencing(expressions, heap, o))
                       IN IF o \in strayRemoved'
                          THEN backLinks'[o] - backLinks[o] > more
                          ELSE backLinks'[o] - backLinks[o] = more
                 /\ (changed' # <<>>) =>
                       \A ord \in Perms(DOMAIN expressions') :
                          buildGraph(bindingsIn([expressions |-> expressions',
                                                 heap |-> heap'], ord), -1).throws = ""]_vars

C14_Witness ==
    /\ last.op = "onDocumentRestored"
    /\ last.res = "ok"
    /\ DOMAIN restoredExpressions = {"A"}
    /\ DOMAIN expressions = {"A", "B"}
    /\ expressions["A"] = restoredExpressions["A"]
    /\ "A" \in DOMAIN changed
    /\ backLinks["X"] = 1

(***************************************************************************)
(* C15.  Round trip: the saved count is the number of bindings, and when   *)
(* the saved form of an acyclic store has been restored into a new engine  *)
(* and restore-complete is signalled, the live store has the canonical     *)
(* keys of the saved store and, under each, the expression and the         *)
(* comment that were saved.                                                *)
(***************************************************************************)
C15_RoundTrip ==
    [][/\ (last'.op = "save") =>
            /\ document'[1].count = Cardinality(DOMAIN expressions)
            /\ DOMAIN readDocument(document'[1]) = DOMAIN expressions
            /\ \A k \in DOMAIN expressions :
                  readDocument(document'[1])[k]
                      = <<heap[expressions[k].id], expressions[k].comment>>
       /\ (last'.op = "reload") =>
            /\ DOMAIN restoredExpressions' = DOMAIN readDocument(document[1])
            /\ \A k \in DOMAIN restoredExpressions' :
                  Binding(restoredExpressions', heap', k)
                      = [content |-> readDocument(document[1])[k][1],
                         comment |-> readDocument(document[1])[k][2]]
       /\ (/\ last.op = "reload"
           /\ last.fresh
           /\ Acyclic(restoredExpressions, heap)
           /\ last'.op = "onDocumentRestored") =>
            /\ last'.res = "ok"
            /\ DOMAIN expressions' =
                  {canonicalPath(k) : k \in DOMAIN restoredExpressions}
            /\ \A k \in DOMAIN restoredExpressions :
                  Binding(expressions', heap', canonicalPath(k))
                      = Binding(restoredExpressions, heap, k)]_vars

(***************************************************************************)
(* C16.  renameExpressions({a -> b}) followed by renameExpressions({b ->   *)
(* a}) gives back the store the first call started from: the same keys,    *)
(* each with its expression and its comment, no binding lost.              *)
(***************************************************************************)
C16_RenameThereAndBack ==
    [][(/\ last.op = "renameExpressions" /\ last.res = "ok"
        /\ last'.op = "renameExpressions" /\ last'.res = "ok"
        /\ last'.path = last.to /\ last'.to = last.path) =>
          Bindings(expressions', heap') = last.before]_vars

(***************************************************************************)
(* C17.  Paste of the Copy of an engine replaces the whole store: the      *)
(* bindings are then exactly those of that engine, keys, expressions and   *)
(* comments; no stored expression is an object of the source; and          *)
(* changed(path) has been signalled once for every installed binding.      *)
(***************************************************************************)
C17_PasteReplaces ==
    (last.op = "paste") =>
        /\ Bindings(expressions, heap) = last.from
        /\ last.expr = Released
        /\ changed = [k \in DOMAIN last.from |-> 1]

C17_Witness ==
    /\ last.op = "paste"
    /\ DOMAIN expressions = {"B", "C"}
    /\ DOMAIN restoredExpressions = {"A"}
    /\ heap[expressions["C"].id] = {"X.v"}
    /\ backLinks["X"] = 1

(***************************************************************************)
(* C18.  slotObjectDeleted(obj) touches the engine if and only if some     *)
(* installed binding's expression references obj, and in both cases the    *)
(* keys, expressions and comments of the store and the back-links are as   *)
(* before.                                                                 *)
(***************************************************************************)
C18_ObjectDeleted ==
    [][(last'.op = "slotObjectDeleted") =>
          /\ (last'.res = "touched") <=>
                (Referencing(expressions, heap, last'.path) # {})
          /\ Bindings(expressions', heap') = Bindings(expressions, heap)
          /\ backLinks' = backLinks]_vars

C18_Witness ==
    /\ last.op = "slotObjectDeleted"
    /\ last.res = "touched"
    /\ last.path = "X"
    /\ DOMAIN expressions = {"A", "B"}
    /\ Referencing(expressions, heap, "X") = {"B"}
    /\ backLinks["X"] = 1

(***************************************************************************)
(* C19.  slotObjectRenamed(obj) signals changed(path) exactly once for     *)
(* every binding whose expression the relabel visitor rewrites, that is    *)
(* every binding referencing obj, and for no other binding.                *)
(***************************************************************************)
C19_RenamedSignals ==
    (last.op = "slotObjectRenamed") =>
        changed = [k \in Referencing(expressions, heap, last.path) |-> 1]

(***************************************************************************)
(* C20.  setValue(path, expr, comment) with the very expression object     *)
(* that the binding at the canonical path holds returns at once: the       *)
(* store with its comments and the back-links are as before and no         *)
(* changed(path) is signalled, whatever the comment passed.                *)
(***************************************************************************)
\* The step is a setValue with the held object: the only call that records
\* the comment it was given.
HeldCall == last'.op = "setValue" /\ "comment" \in DOMAIN last'

C20_SameObjectNoEffect ==
    [][HeldCall =>
          /\ last'.res = "same"
          /\ expressions' = expressions
          /\ Bindings(expressions', heap') = Bindings(expressions, heap)
          /\ backLinks' = backLinks
          /\ changed' = <<>>
          /\ strayRemoved' = {}]_vars

C20_Witness ==
    /\ last.op = "setValue"
    /\ last.res = "same"
    /\ last.path = "A1"
    /\ last.comment = "c"
    /\ expressions["A"].comment = ""
    /\ last.expr = expressions["A"].id
    /\ getDepObjects(heap[expressions["A"].id]) = {"X"}
    /\ backLinks["X"] = 1

(***************************************************************************)
(* C21.  validateExpression returns the diagnostic of the first check that *)
(* fails, in this order: the validator's diagnostic; "cyclic reference"    *)
(* when a dependency object of the expression is in the reverse-link       *)
(* closure of the object of the path; the cyclic-dependency error when the *)
(* graph over the bindings, with the path rebound to the expression, has a *)
(* cycle; otherwise it accepts.  A rejection leaves the store as it was.   *)
(***************************************************************************)
\* The graph over the store ex with usePath rebound to the content c.
ReboundEdges(ex, h, usePath, c) ==
    DepEdges([k \in DOMAIN ex \ {usePath} |-> ex[k]], h)
        \cup {<<oidCanonicalPath(usePath), oidCanonicalPath(r)>> : r \in c}

Expected(ex, h, bl, usePath, c) ==
    IF validator /\ ValidatorFunc(usePath, c) # "" THEN ValidatorFunc(usePath, c)
    ELSE IF getDepObjects(c) \cap getInListEx(getDocumentObject(usePath), bl) # {}
    THEN "cyclic reference"
    ELSE IF HasCycle(ReboundEdges(ex, h, usePath, c)) THEN "CyclicDependency"
    ELSE "ok"

C21_ValidateOrder ==
    [][(/\ last'.op = "setValue"
        /\ "content" \in DOMAIN last'
        /\ getProperty(last'.path)) =>
          /\ last'.res = Expected(expressions, heap, backLinks,
                                  canonicalPath(last'.path), last'.content)
          /\ last'.res # "ok" =>
                /\ Bindings(expressions', heap') = Bindings(expressions, heap)
                /\ backLinks' = backLinks]_vars

(***************************************************************************)
(* C22.  When the turn of execute comes to a binding whose path resolves   *)
(* to no property, or to a property of another container, execute fails    *)
(* there: what was written before stays written, this binding and the      *)
(* later ones are not written, execute is over, and the store is as it     *)
(* was.  (The turn does not come to the binding when the setter of the     *)
(* turn before it ends execute with its exception.)                        *)
(***************************************************************************)
NotOfOwner(p) == ~getProperty(p) \/ getDocumentObject(p) # Owner

C22_FailsAtForeign ==
    [][(/\ running
        /\ pos <= Len(evaluationOrder)
        /\ NotOfOwner(evaluationOrder[pos])
        /\ last'.op \in {"execute", "executeStep"}
        /\ pos' >= pos) =>
          /\ last'.op = "execute"
          /\ last'.res \in {"PathInvalid", "ForeignProperty"}
          /\ last'.path = evaluationOrder[pos]
          /\ ~running'
          /\ written' = written
          /\ written = SubSeq(evaluationOrder, 1, pos - 1)
          /\ pos' = pos
          /\ Bindings(expressions', heap') = Bindings(expressions, heap)
          /\ expressions' = expressions]_vars

C22_Witness ==
    /\ last.op = "execute"
    /\ last.res = "ForeignProperty"
    /\ ~running
    /\ Len(evaluationOrder) = 2
    /\ pos = 2
    /\ written = <<evaluationOrder[1]>>
    /\ DOMAIN expressions = {evaluationOrder[1], evaluationOrder[2]}

(***************************************************************************)
(* C23.  renameExpressions(map): the binding whose key is the canonical    *)
(* form of the map's key is then found under the mapped key, every other   *)
(* binding under its own key; changed has been signalled once for every    *)
(* key of the resulting store, all of it after one aboutToSetValue and     *)
(* before the one hasSetValue.                                             *)
(***************************************************************************)
C23_RenamePaths ==
    (last.op = "renameExpressions" /\ last.res = "ok") =>
        LET after == Bindings(expressions, heap)
            newKey(k) == IF k = canonicalPath(last.path) THEN last.to ELSE k
            n == Cardinality(DOMAIN expressions)
        IN /\ DOMAIN after = {newKey(k) : k \in DOMAIN last.before}
           /\ \A k \in DOMAIN last.before : after[newKey(k)] = last.before[k]
           /\ changed = [k \in DOMAIN expressions |-> 1]
           /\ log = <<"aboutToSetValue">> \o [i \in 1..n |-> "changed"]
                        \o <<"hasSetValue">>

(***************************************************************************)
(* C24.  adjustLinks(inList) returns true if and only if the expression of *)
(* some binding references an object of inList other than the owner.       *)
(* Expression::adjustLinks is called on, and changed signalled for,        *)
(* exactly those bindings; every other binding is as before; and when      *)
(* there is none no scope is opened and nothing changes.                   *)
(***************************************************************************)
Qualifying(ex, h, inList) ==
    {k \in DOMAIN ex : (getDepObjects(h[ex[k].id]) \cap inList) \ {Owner} # {}}

AdjustedExactly ==
    LET Q == Qualifying(expressions, heap, last'.inList)
    IN /\ (last'.res = "true") <=> (Q # {})
       /\ adjusted' = Q
       /\ changed' = [k \in Q |-> 1]
       /\ DOMAIN expressions' = DOMAIN expressions
       /\ \A k \in DOMAIN expressions \ Q :
             Binding(expressions', heap', k) = Binding(expressions, heap, k)
       /\ (Q = {}) =>
             /\ log' = <<>>
             /\ signalCounter' = signalCounter
             /\ Bindings(expressions', heap') = Bindings(expressions, heap)
             /\ backLinks' = backLinks
             /\ strayRemoved' = {}

C24_AdjustLinks ==
    [][(last'.op = "adjustLinks") => AdjustedExactly]_vars

(***************************************************************************)
(* C24, as amended.  An adjustLinks(inList) in which no                    *)
(* Expression::adjustLinks throws returns true if and only if some binding *)
(* references an object of inList other than the owner, and has adjusted   *)
(* and signalled exactly those bindings.  One in which the expression of   *)
(* a qualifying binding throws ends there with AdjustLinkFailed: the       *)
(* qualifying bindings before it are adjusted and signalled, it and the    *)
(* later ones are not signalled, and no binding is added or removed.       *)
(***************************************************************************)
C24_AdjustLinksReturning ==
    [][(last'.op = "adjustLinks") =>
          LET Q == Qualifying(expressions, heap, last'.inList)
          IN /\ last'.res \in {"true", "false", "AdjustLinkFailed"}
             /\ (last'.res # "AdjustLinkFailed") => AdjustedExactly
             /\ (last'.res = "AdjustLinkFailed") =>
                   /\ Q # {}
                   /\ adjusted' \subseteq Q
                   /\ DOMAIN changed' \subseteq adjusted'
                   /\ Cardinality(DOMAIN changed') = Cardinality(adjusted') - 1
                   /\ \A k \in DOMAIN changed' : changed'[k] = 1
                   /\ DOMAIN expressions' = DOMAIN expressions]_vars

C24_Witness ==
    /\ last.op = "adjustLinks"
    /\ last.res = "true"
    /\ last.inList = {"X"}
    /\ DOMAIN expressions = {"A", "C"}
    /\ adjusted = {"A"}
    /\ changed = ("A" :> 1)
    /\ log = <<"aboutToSetValue", "changed", "hasSetValue">>

(***************************************************************************)
(* C25.  The graph builder enters no edge for a dependency whose property  *)
(* name is empty: the graph, the cycle verdict and the evaluation order    *)
(* are those of the store with these dependencies left out.  Every         *)
(* dependency with a property name gives exactly one edge, from the bound  *)
(* path to the canonical form of the referenced path.  Stated of the store *)
(* that every call other than execute leaves; execute builds its graph of  *)
(* the store it finds.                                                     *)
(***************************************************************************)
Named(c) == {r \in c : PropertyName(r) # ""}

\* The edges of a graph under construction as pairs of paths.
EdgePaths(gs) ==
    [i \in 1..Len(gs.edges) |->
        <<gs.nodes[gs.edges[i][1] + 1], gs.nodes[gs.edges[i][2] + 1]>>]

C25_WholeObjectNoEdge ==
    (last.op \notin {"execute", "executeBegin", "executeStep", "executeNested"}) =>
    \A ord \in Perms(DOMAIN expressions) :
        LET exprs == bindingsIn(Engine, ord)
            named == [i \in 1..Len(exprs) |-> <<exprs[i][1], Named(exprs[i][2])>>]
            ep == EdgePaths(buildLoop(exprs, 1, -1, EmptyGraph))
        IN /\ \A i \in 1..Len(ep) : PropertyName(ep[i][2]) # ""
           /\ \A k \in DOMAIN expressions :
                 /\ {ep[i][2] : i \in {j \in 1..Len(ep) : ep[j][1] = k}}
                       = {oidCanonicalPath(r) : r \in Named(contentOf(Engine, k))}
                 /\ Cardinality({j \in 1..Len(ep) : ep[j][1] = k})
                       = Cardinality(Named(contentOf(Engine, k)))
           /\ (named # exprs) =>
                 /\ buildLoop(exprs, 1, -1, EmptyGraph)
                       = buildLoop(named, 1, -1, EmptyGraph)
                 /\ computeEvaluationOrder(exprs, -1)
                       = computeEvaluationOrder(named, -1)

C25_Witness ==
    /\ last.op = "setValue"
    /\ last.res = "ok"
    /\ "content" \in DOMAIN last
    /\ last.content = {"X."}
    /\ backLinks["X"] = 2
    /\ \E k \in DOMAIN expressions : contentOf(Engine, k) = {"B", "X.v"}
    /\ \E k \in DOMAIN expressions : contentOf(Engine, k) = {"X."}

(***************************************************************************)
(* C26.  Between calls no atomic change scope is open.  A call of          *)
(* setValue, Paste, onDocumentRestored or adjustLinks, ended by return or  *)
(* by exception, has called aboutToSetValue and hasSetValue equally often  *)
(* and at most once, first and last of what it signalled, and every        *)
(* changed lies between the two; onDocumentRestored, whose setValue calls  *)
(* open their scopes inside its own, has called hasSetValue exactly once.  *)
(***************************************************************************)
ScopedOps == {"setValue", "paste", "onDocumentRestored", "adjustLinks"}

Signalled(x) == Cardinality({i \in 1..Len(log) : log[i] = x})

C26_ScopesBalanced ==
    /\ signalCounter = 0
    /\ (last.op \in ScopedOps) =>
          /\ Signalled("aboutToSetValue") = Signalled("hasSetValue")
          /\ Signalled("hasSetValue") <= 1
          /\ (log # <<>>) =>
                /\ log[1] = "aboutToSetValue"
                /\ log[Len(log)] = "hasSetValue"
          /\ (last.op = "onDocumentRestored") => Signalled("hasSetValue") = 1

C26_Witness ==
    /\ last.op = "onDocumentRestored"
    /\ last.res = "ok"
    /\ signalCounter = 0
    /\ log = <<"aboutToSetValue", "changed", "changed", "hasSetValue">>

(***************************************************************************)
(* C27.  When onDocumentRestored is called again, right after a call of    *)
(* it and with the staged bindings visited in the same order, the second   *)
(* call leaves the bindings and the back-link counts as the first left     *)
(* them and signals no changed(path).                                      *)
(***************************************************************************)
C27_RestoredIdempotent ==
    [][(/\ last.op = "onDocumentRestored"
        /\ last'.op = "onDocumentRestored"
        /\ last'.ord = last.ord)
       => /\ Bindings(expressions', heap') = Bindings(expressions, heap)
          /\ backLinks' = backLinks
          /\ changed' = <<>>]_vars

(***************************************************************************)
(* C28.  No step of execute, at entry, in the loop, at the return, ended   *)
(* by an exception or called from inside a running execute, changes the    *)
(* binding store (keys, expression objects, comments), what the            *)
(* expressions say, the staging store or the back-link counts.             *)
(***************************************************************************)
C28_ExecuteKeepsStore ==
    [][(last'.op \in ExecuteOps)
       => UNCHANGED <<expressions, heap, restoredExpressions, backLinks>>]_vars

====
